---- MODULE Spec2Model ----
(***************************************************************************)
(* Model of the smart text-chunking engine of the manuscript publisher:    *)
(* chunkTextSmart, mergeEditedChunks and validateEditedLength              *)
(* (src/v1_typescript/utils/textChunking.ts) and their composition in      *)
(* editManuscriptSmart (src/v1_typescript/services/geminiService.ts), and  *)
(* of the retry wrapper withErrorRecovery (src/unnamed/part_007).          *)
(*                                                                         *)
(* A JavaScript string is represented run-length encoded: a sequence of    *)
(* runs [c |-> code unit, n |-> repetitions >= 1] in which adjacent runs   *)
(* carry different code units.  Every string operation below is computed   *)
(* exactly on that representation, so the program's own constants (the     *)
(* 2000-character search window, the 500/200/50 merge windows) are kept at *)
(* their source values and texts of several thousand characters stay cheap.*)
(***************************************************************************)
EXTENDS Integers, Sequences, FiniteSets, TLC

VARIABLES
    pc,               \* position of the running call
    text,             \* chunkTextSmart: argument text
    maxChunkSize,     \* chunkTextSmart: argument maxChunkSize
    overlapSize,      \* chunkTextSmart: argument overlapSize
    position,         \* chunkTextSmart: local position
    previousOverlap,  \* chunkTextSmart: local previousOverlap
    chunks,           \* chunkTextSmart: local chunks / return value
    editedChunks,     \* mergeEditedChunks: argument editedChunks
    merged,           \* mergeEditedChunks: local merged / return value
    i,                \* mergeEditedChunks: loop index i (0-based as in the source)
    originalText,     \* validateEditedLength: argument originalText
    editedText,       \* validateEditedLength: argument editedText
    tolerancePercent, \* validateEditedLength: argument tolerancePercent
    report,           \* validateEditedLength: return value
    maxRetries,       \* withErrorRecovery: option maxRetries
    fallback,         \* withErrorRecovery: option fallback ("none" when absent)
    onRetry,          \* withErrorRecovery: whether option onRetry is given
    attempt,          \* withErrorRecovery: loop variable attempt
    calls,            \* withErrorRecovery: what each call of fn so far ended with
    error,            \* withErrorRecovery: the error caught at line 24
    retried,          \* withErrorRecovery: the arguments of each onRetry call so far
    delays,           \* withErrorRecovery: the sleep() delays so far
    outcome,          \* withErrorRecovery: how the returned promise settled
    appState,         \* app store: the state object
    localStorage,     \* app store: the browser's localStorage
    isProcessing,     \* useProcessingEngine: state isProcessing
    progress,         \* useProcessingEngine: state progress
    currentStage,     \* useProcessingEngine: state currentStage
    processingError,  \* useProcessingEngine: state error
    status,           \* useProcessingEngine: the last status passed to onProgress
    running           \* useProcessingEngine: where each startProcessing call stands

vars == <<pc, text, maxChunkSize, overlapSize, position, previousOverlap, chunks,
          editedChunks, merged, i, originalText, editedText, tolerancePercent, report,
          maxRetries, fallback, onRetry, attempt, calls, error, retried, delays, outcome,
          appState, localStorage,
          isProcessing, progress, currentStage, processingError, status, running>>

chunkVars == <<text, maxChunkSize, overlapSize, position, previousOverlap, chunks>>
mergeVars == <<editedChunks, merged, i>>
validateVars == <<originalText, editedText, tolerancePercent, report>>
recoveryVars == <<maxRetries, fallback, onRetry, attempt, calls, error, retried, delays,
                  outcome>>
storeVars == <<appState, localStorage>>
engineVars == <<isProcessing, progress, currentStage, processingError, status, running>>

(***************************************************************************)
(* Code units.                                                             *)
(***************************************************************************)
LF == "\n"
SP == " "
DOT == "."
BANG == "!"
CJKDOT == "U+3002"    \* ideographic full stop
ARQ == "U+061F"       \* Arabic question mark

Min(a, b) == IF a <= b THEN a ELSE b
Max(a, b) == IF a >= b THEN a ELSE b

(***************************************************************************)
(* Bounds of the model.                                                    *)
(***************************************************************************)
MaxRuns == 3      \* runs of one input text
MaxChunks == 6    \* loop iterations of chunkTextSmart that are followed
MaxEdited == 2    \* chunks of one mergeEditedChunks call
MaxWords == 12    \* words of one validateEditedLength argument
MaxAttempts == 3  \* largest maxRetries of one withErrorRecovery call
MaxHistory == 3   \* entries of the app store's conversationHistory
MaxCalls == 2     \* calls of startProcessing on one hook
MaxMerged == 3    \* chunks of one mergeEditedChunks call on the short texts

(***************************************************************************)
(* Strings (run-length encoded).                                           *)
(***************************************************************************)
Run(c, n) == [c |-> c, n |-> n]
Str(c, n) == IF n <= 0 THEN <<>> ELSE <<Run(c, n)>>
EmptyStr == <<>>

\* s.length
RECURSIVE Length(_)
Length(s) == IF s = <<>> THEN 0 ELSE s[1].n + Length(Tail(s))

\* offset of the first code unit of run k of s
Off(s, k) == Length(SubSeq(s, 1, k - 1))

\* a + b
Concat(a, b) ==
    IF a = <<>> THEN b
    ELSE IF b = <<>> THEN a
    ELSE IF a[Len(a)].c = b[1].c
         THEN SubSeq(a, 1, Len(a) - 1)
              \o <<Run(b[1].c, a[Len(a)].n + b[1].n)>>
              \o Tail(b)
         ELSE a \o b

\* the well-formedness of the representation
IsStr(s) ==
    /\ \A k \in 1..Len(s) : s[k].n >= 1
    /\ \A k \in 1..(Len(s) - 1) : s[k].c # s[k + 1].c

\* s.substring(start, end): both arguments clamped to [0, s.length] and
\* swapped when start > end
Substring(s, start, end) ==
    LET len == Length(s)
        a == Min(Max(start, 0), len)
        b == Min(Max(end, 0), len)
        lo == Min(a, b)
        hi == Max(a, b)
        piece(k) == Min(hi, Off(s, k) + s[k].n) - Max(lo, Off(s, k))
        keep == {k \in 1..Len(s) : piece(k) > 0}
    IN  IF keep = {} THEN <<>>
        ELSE LET f == CHOOSE k \in keep : \A m \in keep : k <= m
                 l == CHOOSE k \in keep : \A m \in keep : k >= m
             IN  [k \in 1..(l - f + 1) |-> Run(s[f + k - 1].c, piece(f + k - 1))]

\* s.substring(start)
SubstringFrom(s, start) == Substring(s, start, Length(s))

\* the occurrences of the non-empty string p in s, by the run of s at which
\* the first run of p lies: the first and last runs of p may lie inside
\* longer runs of s, the runs between them must be equal
Aligned(s, p, r) ==
    /\ r + Len(p) - 1 <= Len(s)
    /\ \A k \in 1..Len(p) :
          /\ s[r + k - 1].c = p[k].c
          /\ IF k = 1 \/ k = Len(p)
             THEN s[r + k - 1].n >= p[k].n
             ELSE s[r + k - 1].n = p[k].n

FirstAt(s, p, r) == IF Len(p) = 1 THEN Off(s, r) ELSE Off(s, r + 1) - p[1].n
LastAt(s, p, r) ==
    IF Len(p) = 1 THEN Off(s, r) + s[r].n - p[1].n ELSE Off(s, r + 1) - p[1].n

\* s.indexOf(p): the first occurrence, -1 when there is none
IndexOf(s, p) ==
    LET at == {FirstAt(s, p, r) : r \in {q \in 1..Len(s) : Aligned(s, p, q)}}
    IN  IF at = {} THEN -1 ELSE CHOOSE x \in at : \A y \in at : x <= y

\* s.lastIndexOf(p): the last occurrence, -1 when there is none
LastIndexOf(s, p) ==
    LET at == {LastAt(s, p, r) : r \in {q \in 1..Len(s) : Aligned(s, p, q)}}
    IN  IF at = {} THEN -1 ELSE CHOOSE x \in at : \A y \in at : x >= y

\* s.endsWith(c), s.startsWith(c) for a single code unit c
EndsWith(s, c) == s # <<>> /\ s[Len(s)].c = c
StartsWith(s, c) == s # <<>> /\ s[1].c = c

\* the array of the chunks' text fields joined without separator
RECURSIVE JoinTexts(_)
JoinTexts(cs) ==
    IF cs = <<>> THEN EmptyStr ELSE Concat(cs[1].text, JoinTexts(Tail(cs)))

(***************************************************************************)
(* chunkTextSmart (textChunking.ts:26-134).                                *)
(***************************************************************************)
\* the six patterns of paragraphBreaks and the four of sentenceBreaks
ParagraphPatterns ==
    { <<Run(LF, 2)>>,
      <<Run(LF, 1), Run(SP, 1), Run(LF, 1)>>,
      <<Run(DOT, 1), Run(LF, 1)>>,
      <<Run(CJKDOT, 1), Run(LF, 1)>>,
      <<Run(ARQ, 1), Run(LF, 1)>>,
      <<Run(BANG, 1), Run(LF, 1)>> }

SentencePatterns ==
    { <<Run(DOT, 1), Run(SP, 1)>>,
      <<Run(CJKDOT, 1), Run(SP, 1)>>,
      <<Run(ARQ, 1), Run(SP, 1)>>,
      <<Run(BANG, 1), Run(SP, 1)>> }

\* Math.max(...indices.filter(i => i > 0)); Math.max() of nothing is
\* -Infinity, which the callers only compare with 0: it is modelled as -1
MaxPositive(indices) ==
    LET kept == {x \in indices : x > 0}
    IN  IF kept = {} THEN -1 ELSE CHOOSE x \in kept : \A y \in kept : x >= y

\* faulty variants of searchStart: the look-back is not clamped to the chunk's
\* start; the search begins at the chunk's start
searchStartUnclamped(pos, maxSize) == pos + maxSize - 2000
searchStartAtPosition(pos, maxSize) == pos
searchStart(pos, maxSize) == Max(pos + maxSize - 2000, pos)

\* faulty variant of searchEnd: the look-ahead runs to the end of the text
searchEndOfText(t, pos, maxSize) == Length(t)
searchEnd(t, pos, maxSize) == Min(pos + maxSize + 2000, Length(t))
searchText(t, pos, maxSize) ==
    Substring(t, searchStart(pos, maxSize), searchEnd(t, pos, maxSize))

bestBreak(st) == MaxPositive({LastIndexOf(st, p) : p \in ParagraphPatterns})
bestSentence(st) == MaxPositive({LastIndexOf(st, p) : p \in SentencePatterns})

\* faulty variant of chunkEnd: the remaining text is never taken whole (lines 56-57
\* left out)
chunkEndNoTail(t, pos, maxSize, overlap) ==
    LET st == searchText(t, pos, maxSize)
    IN  IF bestBreak(st) > 0 THEN searchStart(pos, maxSize) + bestBreak(st) + 2
        ELSE IF bestSentence(st) > 0
             THEN searchStart(pos, maxSize) + bestSentence(st) + 2
        ELSE pos + maxSize

\* the value of chunkEnd at line 107 of one loop iteration
chunkEnd(t, pos, maxSize, overlap) ==
    LET remainingLength == Length(t) - pos
        st == searchText(t, pos, maxSize)
    IN  IF remainingLength <= maxSize + overlap THEN Length(t)
        ELSE IF bestBreak(st) > 0 THEN searchStart(pos, maxSize) + bestBreak(st) + 2
        ELSE IF bestSentence(st) > 0
             THEN searchStart(pos, maxSize) + bestSentence(st) + 2
        ELSE pos + maxSize

\* faulty variant of nextOverlap: the rest of the text, not cut to the overlap
nextOverlapToEnd(t, end, overlap) ==
    IF end < Length(t) THEN SubstringFrom(t, end) ELSE EmptyStr

\* lines 108-110: the characters that follow the chunk, at most overlapSize
nextOverlap(t, end, overlap) ==
    IF end < Length(t)
    THEN Substring(t, end, Min(end + overlap, Length(t)))
    ELSE EmptyStr

Chunk(txt, idx, total, startPos, endPos, ovStart, ovEnd) ==
    [text |-> txt,
     metadata |-> [index |-> idx, totalChunks |-> total,
                   startPosition |-> startPos, endPosition |-> endPos,
                   overlapStart |-> ovStart, overlapEnd |-> ovEnd]]

\* faulty variant of newChunk: the chunk's text starts overlapSize characters early
newChunkOverlapping(t, pos, end, idx, prevOverlap, overlap) ==
    Chunk(Substring(t, pos - overlap, end), idx, 0, pos, end,
          prevOverlap, nextOverlap(t, end, overlap))

\* lines 107-122: the chunk one loop iteration pushes
newChunk(t, pos, end, idx, prevOverlap, overlap) ==
    Chunk(Substring(t, pos, end), idx, 0, pos, end,
          prevOverlap, nextOverlap(t, end, overlap))

\* faulty variant of fitsOneChunk: the small-text case is never taken
fitsOneChunkNever(t, maxSize) == FALSE

\* line 34: the test of the small-text case
fitsOneChunk(t, maxSize) == Length(t) <= maxSize

\* faulty variant of withTotalChunks: the placeholder 0 is left in place
withTotalChunksKept(cs) == cs

\* lines 129-131: totalChunks of every chunk becomes the length of the list
withTotalChunks(cs) ==
    [k \in 1..Len(cs) |-> [cs[k] EXCEPT !.metadata.totalChunks = Len(cs)]]

\* lines 34-46: the text fits one chunk
ChunkShortcut ==
    /\ pc = "chunkTextSmart"
    /\ fitsOneChunk(text, maxChunkSize)
    /\ chunks' = <<Chunk(text, 0, 1, 0, Length(text), EmptyStr, EmptyStr)>>
    /\ pc' = "chunked"
    /\ UNCHANGED <<text, maxChunkSize, overlapSize, position, previousOverlap>>
    /\ UNCHANGED <<mergeVars, validateVars, recoveryVars, storeVars, engineVars>>

\* lines 48-49: the locals of the loop
ChunkEnter ==
    /\ pc = "chunkTextSmart"
    /\ ~fitsOneChunk(text, maxChunkSize)
    /\ position' = 0
    /\ previousOverlap' = EmptyStr
    /\ pc' = "while"
    /\ UNCHANGED <<text, maxChunkSize, overlapSize, chunks>>
    /\ UNCHANGED <<mergeVars, validateVars, recoveryVars, storeVars, engineVars>>

\* faulty variant of loopContinues: one more iteration at the end of the text
loopContinuesAtEnd(pos, t) == pos <= Length(t)

\* line 51: the loop test
loopContinues(pos, t) == pos < Length(t)

\* lines 51-126: one iteration of the while loop
ChunkIterate ==
    /\ pc = "while"
    /\ loopContinues(position, text)
    /\ Len(chunks) < MaxChunks
    /\ LET end == chunkEnd(text, position, maxChunkSize, overlapSize)
           pushed == newChunk(text, position, end, Len(chunks),
                              previousOverlap, overlapSize)
           chunkText == pushed.text
       IN  /\ chunks' = Append(chunks, pushed)
           /\ previousOverlap' =
                  SubstringFrom(chunkText, Max(0, Length(chunkText) - overlapSize))
           /\ position' = end
    /\ UNCHANGED <<pc, text, maxChunkSize, overlapSize>>
    /\ UNCHANGED <<mergeVars, validateVars, recoveryVars, storeVars, engineVars>>

\* lines 128-133: totalChunks is filled in and the list returned
ChunkReturn ==
    /\ pc = "while"
    /\ ~loopContinues(position, text)
    /\ chunks' = withTotalChunks(chunks)
    /\ pc' = "chunked"
    /\ UNCHANGED <<text, maxChunkSize, overlapSize, position, previousOverlap>>
    /\ UNCHANGED <<mergeVars, validateVars, recoveryVars, storeVars, engineVars>>

(***************************************************************************)
(* mergeEditedChunks (textChunking.ts:139-180).                            *)
(***************************************************************************)
\* lines 150-152: the two windows the overlap is searched in
mergedEnd(m) == SubstringFrom(m, Max(0, Length(m) - 500))
\* faulty variant of currentStart: only the first 200 characters are searched
currentStartOf200(cur) == Substring(cur, 0, Min(200, Length(cur)))
currentStart(cur) == Substring(cur, 0, Min(500, Length(cur)))

\* faulty variant of bestOverlap: the loop stops at j > 100
bestOverlapAbove100(m, cur) ==
    LET me == SubstringFrom(m, Max(0, Length(m) - 500))
        cs == Substring(cur, 0, Min(500, Length(cur)))
        hit == {j \in 101..Min(200, Length(me)) :
                   IndexOf(cs, SubstringFrom(me, Length(me) - j)) >= 0}
    IN  IF hit = {} THEN 0 ELSE CHOOSE j \in hit : \A k \in hit : j >= k

\* lines 155-164: the first j, counting down from min(200, mergedEnd.length)
\* to 51, whose trailing snippet of mergedEnd occurs in currentStart; 0 when
\* there is none
bestOverlap(m, cur) ==
    LET me == mergedEnd(m)
        cs == currentStart(cur)
        hit == {j \in 51..Min(200, Length(me)) :
                   IndexOf(cs, SubstringFrom(me, Length(me) - j)) >= 0}
    IN  IF hit = {} THEN 0 ELSE CHOOSE j \in hit : \A k \in hit : j >= k

\* faulty variant of separator: only newlines are looked for
separatorNewlineOnly(m, cur) ==
    IF ~EndsWith(m, LF) /\ ~StartsWith(cur, LF) THEN Str(SP, 1) ELSE EmptyStr

\* lines 167-176: the separator of a merge step that found no overlap
separator(m, cur) ==
    IF /\ ~EndsWith(m, LF) /\ ~StartsWith(cur, LF)
       /\ ~EndsWith(m, SP) /\ ~StartsWith(cur, SP)
    THEN Str(SP, 1)
    ELSE EmptyStr

\* faulty variant of mergeStep: on a match the accumulator is kept whole and
\* current is appended from the end of the match on
mergeStepJoinAtMatch(m, cur) ==
    LET j == bestOverlap(m, cur)
        snippet == SubstringFrom(mergedEnd(m), Length(mergedEnd(m)) - j)
    IN  IF j > 0
        THEN Concat(m, SubstringFrom(cur, IndexOf(currentStart(cur), snippet) + j))
        ELSE Concat(Concat(m, separator(m, cur)), cur)

\* lines 146-176: merged after the loop body has run for currentChunk
mergeStep(m, cur) ==
    IF bestOverlap(m, cur) > 0
    THEN Concat(Substring(m, 0, Length(m) - bestOverlap(m, cur)), cur)
    ELSE Concat(Concat(m, separator(m, cur)), cur)

\* faulty variant of mergeFew: a single chunk is dropped like an empty list
mergeFewEmpty(ec) == EmptyStr

\* lines 140-141: the result for an empty list and for a single chunk
mergeFew(ec) == IF Len(ec) = 0 THEN EmptyStr ELSE ec[1]

\* lines 140-141: zero or one chunk
MergeShortcut ==
    /\ pc = "mergeEditedChunks"
    /\ Len(editedChunks) <= 1
    /\ merged' = mergeFew(editedChunks)
    /\ pc' = "merged"
    /\ UNCHANGED <<editedChunks, i>>
    /\ UNCHANGED <<chunkVars, validateVars, recoveryVars, storeVars, engineVars>>

\* lines 143-145: the accumulator and the loop index
MergeEnter ==
    /\ pc = "mergeEditedChunks"
    /\ Len(editedChunks) > 1
    /\ merged' = editedChunks[1]
    /\ i' = 1
    /\ pc' = "for"
    /\ UNCHANGED editedChunks
    /\ UNCHANGED <<chunkVars, validateVars, recoveryVars, storeVars, engineVars>>

\* lines 145-177: one iteration of the for loop
MergeIterate ==
    /\ pc = "for"
    /\ i < Len(editedChunks)
    /\ merged' = mergeStep(merged, editedChunks[i + 1])
    /\ i' = i + 1
    /\ UNCHANGED <<pc, editedChunks>>
    /\ UNCHANGED <<chunkVars, validateVars, recoveryVars, storeVars, engineVars>>

\* line 179
MergeReturn ==
    /\ pc = "for"
    /\ ~(i < Len(editedChunks))
    /\ pc' = "merged"
    /\ UNCHANGED mergeVars
    /\ UNCHANGED <<chunkVars, validateVars, recoveryVars, storeVars, engineVars>>

(***************************************************************************)
(* JavaScript numbers.  The quotient, the product and the difference of    *)
(* validateEditedLength (textChunking.ts:194-195) are IEEE 754 binary64    *)
(* operations, each rounded to nearest, ties to even.  A finite number >= 0*)
(* is [kind |-> "finite", n, x]: the value n * 2^x, where n is a natural   *)
(* number of exactly Precision bits (or 0, with x = 0).  Natural numbers   *)
(* are sequences of limbs, least significant first, without leading zero   *)
(* limbs, so that every intermediate result stays exact.                   *)
(***************************************************************************)
Precision == 53     \* bits of a binary64 significand
LimbBase == 2^15

RECURSIVE BigNorm(_)
BigNorm(a) ==
    IF a # <<>> /\ a[Len(a)] = 0 THEN BigNorm(SubSeq(a, 1, Len(a) - 1)) ELSE a

\* a natural number below LimbBase^2
BigOfInt(v) == BigNorm(<<v % LimbBase, v \div LimbBase>>)

\* a * m + carry, for m below LimbBase
RECURSIVE BigMulCarry(_, _, _)
BigMulCarry(a, m, carry) ==
    IF a = <<>> THEN BigOfInt(carry)
    ELSE LET v == a[1] * m + carry
         IN  <<v % LimbBase>> \o BigMulCarry(Tail(a), m, v \div LimbBase)
BigMul(a, m) == BigNorm(BigMulCarry(a, m, 0))

\* quotient and remainder of a by d, for 0 < d < LimbBase
RECURSIVE BigDivRem(_, _)
BigDivRem(a, d) ==
    IF a = <<>> THEN [q |-> <<>>, r |-> 0]
    ELSE LET hi == BigDivRem(Tail(a), d)
             v == hi.r * LimbBase + a[1]
         IN  [q |-> <<v \div d>> \o hi.q, r |-> v % d]
BigDiv(a, d) == BigNorm(BigDivRem(a, d).q)

\* a * 2^k and floor(a / 2^k)
BigShl(a, k) ==
    IF a = <<>> THEN <<>>
    ELSE [j \in 1..(k \div 15) |-> 0] \o BigMul(a, 2^(k % 15))
BigShr(a, k) ==
    IF Len(a) <= k \div 15 THEN <<>>
    ELSE BigDiv(SubSeq(a, (k \div 15) + 1, Len(a)), 2^(k % 15))

RECURSIVE BigAddCarry(_, _, _)
BigAddCarry(a, b, carry) ==
    IF a = <<>> /\ b = <<>> THEN BigOfInt(carry)
    ELSE LET v == (IF a = <<>> THEN 0 ELSE a[1])
                  + (IF b = <<>> THEN 0 ELSE b[1]) + carry
         IN  <<v % LimbBase>>
                 \o BigAddCarry(IF a = <<>> THEN a ELSE Tail(a),
                                IF b = <<>> THEN b ELSE Tail(b),
                                v \div LimbBase)
BigAdd(a, b) == BigNorm(BigAddCarry(a, b, 0))

\* a - b, for a >= b
RECURSIVE BigSubBorrow(_, _, _)
BigSubBorrow(a, b, borrow) ==
    IF a = <<>> THEN <<>>
    ELSE LET v == a[1] - (IF b = <<>> THEN 0 ELSE b[1]) - borrow
         IN  <<v % LimbBase>>
                 \o BigSubBorrow(Tail(a), IF b = <<>> THEN b ELSE Tail(b),
                                 IF v < 0 THEN 1 ELSE 0)
BigSub(a, b) == BigNorm(BigSubBorrow(a, b, 0))

\* -1, 0, 1 as a < b, a = b, a > b
RECURSIVE BigCmp(_, _)
BigCmp(a, b) ==
    IF Len(a) # Len(b) THEN (IF Len(a) < Len(b) THEN -1 ELSE 1)
    ELSE IF a = <<>> THEN 0
    ELSE IF a[Len(a)] # b[Len(b)] THEN (IF a[Len(a)] < b[Len(b)] THEN -1 ELSE 1)
    ELSE BigCmp(SubSeq(a, 1, Len(a) - 1), SubSeq(b, 1, Len(b) - 1))

RECURSIVE BitLen(_)
BitLen(v) == IF v = 0 THEN 0 ELSE 1 + BitLen(v \div 2)
BigBitLen(a) == IF a = <<>> THEN 0 ELSE (Len(a) - 1) * 15 + BitLen(a[Len(a)])
BigIsOdd(a) == a # <<>> /\ a[1] % 2 = 1

Finite(n, x) == [kind |-> "finite", n |-> n, x |-> x]
Zero == Finite(<<>>, 0)
NaN == [kind |-> "NaN", n |-> <<>>, x |-> 0]
Infinity == [kind |-> "Infinity", n |-> <<>>, x |-> 0]

\* the binary64 nearest to n * 2^x (plus a little, when sticky), ties to even
RoundToDouble(n, x, sticky) ==
    LET len == BigBitLen(n)
        k == len - Precision
        q == BigShr(n, k)
        rest == BigSub(n, BigShl(q, k))
        half == BigShl(BigOfInt(1), k - 1)
        up == \/ BigCmp(rest, half) > 0
              \/ BigCmp(rest, half) = 0 /\ (sticky \/ BigIsOdd(q))
        m == IF up THEN BigAdd(q, BigOfInt(1)) ELSE q
    IN  IF n = <<>> THEN Zero
        ELSE IF len <= Precision THEN Finite(BigShl(n, Precision - len), x - (Precision - len))
        ELSE IF BigBitLen(m) > Precision THEN Finite(BigShr(m, 1), x + k + 1)
        ELSE Finite(m, x + k)

\* a / b for integers a >= 0, b >= 0 (line 194)
Quotient(a, b) ==
    IF b = 0 THEN (IF a = 0 THEN NaN ELSE Infinity)
    ELSE LET d == BigDivRem(BigShl(BigOfInt(a), 80), b)
         IN  RoundToDouble(BigNorm(d.q), -80, d.r # 0)

\* f * m for an integer m > 0 (line 194)
Times(f, m) ==
    IF f.kind # "finite" THEN f ELSE RoundToDouble(BigMul(f.n, m), f.x, FALSE)

\* f and the integer v >= 0 brought to the same power of two
Scaled(f, v) ==
    IF f.x <= 0
    THEN [f |-> f.n, v |-> BigShl(BigOfInt(v), -f.x), x |-> f.x]
    ELSE [f |-> BigShl(f.n, f.x), v |-> BigOfInt(v), x |-> 0]

\* Math.abs(v - f) for an integer v >= 0 (line 195)
AbsDifference(v, f) ==
    IF f.kind # "finite" THEN f
    ELSE LET s == Scaled(f, v)
         IN  IF BigCmp(s.v, s.f) >= 0
             THEN RoundToDouble(BigSub(s.v, s.f), s.x, FALSE)
             ELSE RoundToDouble(BigSub(s.f, s.v), s.x, FALSE)

\* f <= v, f < v and f = v for an integer v (lines 197 and 200); a
\* comparison with NaN is false, Infinity is above every integer
LessOrEqual(f, v) ==
    /\ f.kind = "finite"
    /\ v >= 0
    /\ BigCmp(Scaled(f, v).f, Scaled(f, v).v) <= 0
Less(f, v) ==
    /\ f.kind = "finite"
    /\ v >= 0
    /\ BigCmp(Scaled(f, v).f, Scaled(f, v).v) < 0
Equals(f, v) ==
    /\ f.kind = "finite"
    /\ v >= 0
    /\ BigCmp(Scaled(f, v).f, Scaled(f, v).v) = 0

(***************************************************************************)
(* validateEditedLength and countWords (textChunking.ts:186-218).          *)
(***************************************************************************)
IsSpace(c) == c \in {LF, SP}

\* s.trim()
RECURSIVE TrimStart(_)
TrimStart(s) ==
    IF s # <<>> /\ IsSpace(s[1].c) THEN TrimStart(Tail(s)) ELSE s
RECURSIVE TrimEnd(_)
TrimEnd(s) ==
    IF s # <<>> /\ IsSpace(s[Len(s)].c)
    THEN TrimEnd(SubSeq(s, 1, Len(s) - 1))
    ELSE s
Trim(s) == TrimEnd(TrimStart(s))

\* s.split(/\s+/): the pieces of s between its maximal runs of white space;
\* a string without white space, the empty one included, is its only piece,
\* and white space at either end leaves an empty piece there
RECURSIVE Pieces(_, _)
Pieces(s, cur) ==
    IF s = <<>> THEN <<cur>>
    ELSE IF IsSpace(s[1].c)
         THEN <<cur>> \o Pieces(TrimStart(s), EmptyStr)
         ELSE Pieces(Tail(s), Concat(cur, <<s[1]>>))
SplitSpace(s) == Pieces(s, EmptyStr)

\* lines 191-192: text.trim().split(/\s+/).length
wordsOf(s) == Len(SplitSpace(Trim(s)))

\* countWords, line 217
countWords(s) == Len(SelectSeq(SplitSpace(Trim(s)), LAMBDA w : Length(w) > 0))

\* faulty variant of withinTolerance: a difference equal to the tolerance fails
withinToleranceStrict(difference, tol) == Less(difference, tol)

\* line 197
withinTolerance(difference, tol) == LessOrEqual(difference, tol)

\* lines 191-210; message names the branch taken at lines 200-208
validateEditedLength(orig, edited, tol) ==
    LET originalLength == wordsOf(orig)
        editedLength == wordsOf(edited)
        ratio == Times(Quotient(editedLength, originalLength), 100)
        difference == AbsDifference(100, ratio)
        isValid == withinTolerance(difference, tol)
    IN  [isValid |-> isValid,
         ratio |-> ratio,
         message |-> IF isValid THEN "ok"
                     ELSE IF Less(ratio, 100 - tol) THEN "shorter" ELSE "longer",
         originalLength |-> originalLength,
         editedLength |-> editedLength]

Validate ==
    /\ pc = "validateEditedLength"
    /\ report' = validateEditedLength(originalText, editedText, tolerancePercent)
    /\ pc' = "validated"
    /\ UNCHANGED <<originalText, editedText, tolerancePercent>>
    /\ UNCHANGED <<chunkVars, mergeVars, recoveryVars, storeVars, engineVars>>

(***************************************************************************)
(* editManuscriptSmart (geminiService.ts:361-465): the text is split, a    *)
(* chunk whose edit fails or drifts in length is kept as it is (lines 444  *)
(* and 451), the chunks are merged and the result validated against the    *)
(* text.  The path followed here is the one on which every chunk is kept.  *)
(***************************************************************************)
KeepChunks ==
    /\ pc = "chunked"
    /\ editedChunks' = [k \in 1..Len(chunks) |-> chunks[k].text]
    /\ pc' = "mergeEditedChunks"
    /\ UNCHANGED <<merged, i>>
    /\ UNCHANGED <<chunkVars, validateVars, recoveryVars, storeVars, engineVars>>

FinalValidation ==
    /\ pc = "merged"
    /\ originalText' = text
    /\ editedText' = merged
    /\ tolerancePercent' = 10
    /\ pc' = "validateEditedLength"
    /\ UNCHANGED report
    /\ UNCHANGED <<chunkVars, mergeVars, recoveryVars, storeVars, engineVars>>

(***************************************************************************)
(* withErrorRecovery (src/unnamed/part_007:11-44).  What fn resolves with, *)
(* what it throws and what the call settles with are records               *)
(* [class, retryable, of]: class "value" is a result of fn, "fallback" the *)
(* result of the fallback, "Error" and "RecoverableError" are thrown by fn *)
(* (of = the number of the call that produced it), "MaxRetriesExceeded" is *)
(* the error of line 43.                                                   *)
(***************************************************************************)
Thing(class, retryable, of) == [class |-> class, retryable |-> retryable, of |-> of]
Nothing == Thing("none", TRUE, 0)

\* lines 1-9: what fn may throw; retryable is read on a RecoverableError only
Thrown(of) ==
    {Thing("Error", TRUE, of),
     Thing("RecoverableError", TRUE, of),
     Thing("RecoverableError", FALSE, of)}

IsError(t) == t.class \in {"Error", "RecoverableError"}

Pending == [state |-> "pending", with |-> Nothing]
Resolved(t) == [state |-> "resolved", with |-> t]
Rejected(t) == [state |-> "rejected", with |-> t]

\* faulty variant of notRetryable: the retryable flag is not looked at
notRetryableIgnored(e) == FALSE

\* line 26
notRetryable(e) == e.class = "RecoverableError" /\ ~e.retryable

\* faulty variant of isLastAttempt: the last attempt is not recognised
isLastAttemptNever(n, limit) == FALSE

\* line 32
isLastAttempt(n, limit) == n = limit

\* faulty variant of settleFailure: the fallback is ignored
settleFailureRethrow(fb, e) == Rejected(e)

\* lines 27-28 and 33-34: the fallback's result if there is one, else the error
settleFailure(fb, e) ==
    IF fb = "returns" THEN Resolved(Thing("fallback", TRUE, 0)) ELSE Rejected(e)

\* faulty variant of retryNotice: the number of the coming attempt is passed
retryNoticeNext(n, e) == <<n + 1, e>>

\* line 38: the arguments of onRetry
retryNotice(n, e) == <<n, e>>

\* line 39: the delay before the next attempt, in milliseconds
backoff(n) == 2^(n - 1) * 1000

\* line 19-21: the options are read and the loop starts at attempt 1
RecoveryEnter ==
    /\ pc = "withErrorRecovery"
    /\ attempt' = 1
    /\ pc' = "attempt"
    /\ UNCHANGED <<maxRetries, fallback, onRetry, calls, error, retried, delays, outcome>>
    /\ UNCHANGED <<chunkVars, mergeVars, validateVars, storeVars, engineVars>>

\* line 21: the loop test succeeds and fn is called (line 23)
AttemptBegin ==
    /\ pc = "attempt"
    /\ attempt <= maxRetries
    /\ pc' = "fn"
    /\ UNCHANGED <<maxRetries, fallback, onRetry, attempt, calls, error, retried,
                   delays, outcome>>
    /\ UNCHANGED <<chunkVars, mergeVars, validateVars, storeVars, engineVars>>

\* lines 21 and 43: the loop test fails
LoopExhausted ==
    /\ pc = "attempt"
    /\ ~(attempt <= maxRetries)
    /\ outcome' = Rejected(Thing("MaxRetriesExceeded", TRUE, 0))
    /\ pc' = "settled"
    /\ UNCHANGED <<maxRetries, fallback, onRetry, attempt, calls, error, retried, delays>>
    /\ UNCHANGED <<chunkVars, mergeVars, validateVars, storeVars, engineVars>>

\* line 23: fn resolves and its value is returned
FnResolves ==
    /\ pc = "fn"
    /\ calls' = Append(calls, Thing("value", TRUE, Len(calls) + 1))
    /\ outcome' = Resolved(Thing("value", TRUE, Len(calls) + 1))
    /\ pc' = "settled"
    /\ UNCHANGED <<maxRetries, fallback, onRetry, attempt, error, retried, delays>>
    /\ UNCHANGED <<chunkVars, mergeVars, validateVars, storeVars, engineVars>>

\* lines 23-24: fn throws and the error is caught
FnRejects ==
    /\ pc = "fn"
    /\ \E e \in Thrown(Len(calls) + 1) :
          /\ calls' = Append(calls, e)
          /\ error' = e
    /\ pc' = "catch"
    /\ UNCHANGED <<maxRetries, fallback, onRetry, attempt, retried, delays, outcome>>
    /\ UNCHANGED <<chunkVars, mergeVars, validateVars, storeVars, engineVars>>

\* lines 26-29: an error that must not be retried
CatchNotRetryable ==
    /\ pc = "catch"
    /\ notRetryable(error)
    /\ outcome' = settleFailure(fallback, error)
    /\ pc' = "settled"
    /\ UNCHANGED <<maxRetries, fallback, onRetry, attempt, calls, error, retried, delays>>
    /\ UNCHANGED <<chunkVars, mergeVars, validateVars, storeVars, engineVars>>

\* lines 32-35: the last attempt has failed
CatchLastAttempt ==
    /\ pc = "catch"
    /\ ~notRetryable(error)
    /\ isLastAttempt(attempt, maxRetries)
    /\ outcome' = settleFailure(fallback, error)
    /\ pc' = "settled"
    /\ UNCHANGED <<maxRetries, fallback, onRetry, attempt, calls, error, retried, delays>>
    /\ UNCHANGED <<chunkVars, mergeVars, validateVars, storeVars, engineVars>>

\* lines 38-39: onRetry is told, if there is one, and the back-off starts
CatchRetry ==
    /\ pc = "catch"
    /\ ~notRetryable(error)
    /\ ~isLastAttempt(attempt, maxRetries)
    /\ retried' = IF onRetry THEN Append(retried, retryNotice(attempt, error))
                  ELSE retried
    /\ delays' = Append(delays, backoff(attempt))
    /\ pc' = "sleep"
    /\ UNCHANGED <<maxRetries, fallback, onRetry, attempt, calls, error, outcome>>
    /\ UNCHANGED <<chunkVars, mergeVars, validateVars, storeVars, engineVars>>

\* lines 39 and 21: the back-off is over, attempt++
SleepDone ==
    /\ pc = "sleep"
    /\ attempt' = attempt + 1
    /\ pc' = "attempt"
    /\ UNCHANGED <<maxRetries, fallback, onRetry, calls, error, retried, delays, outcome>>
    /\ UNCHANGED <<chunkVars, mergeVars, validateVars, storeVars, engineVars>>

\* no call of withErrorRecovery is under way
NoRecovery ==
    /\ maxRetries = 3
    /\ fallback = "none"
    /\ onRetry = FALSE
    /\ attempt = 0
    /\ calls = <<>>
    /\ error = Nothing
    /\ retried = <<>>
    /\ delays = <<>>
    /\ outcome = Pending

(***************************************************************************)
(* The app store (src/unnamed/part_010:33-86).  appState is the state      *)
(* object of the zustand store; set() replaces the fields it is given.     *)
(* localStorage holds "null" under a key that was never written.           *)
(***************************************************************************)
Themes == {"dark", "light", "cyber"}
Languages == {"ar", "en", "de"}
\* three of the values of ChatStep (src/STDv4saip_source/types.ts:87-114)
Steps == {"LANGUAGE_SELECT", "INTRO", "BOOK_TITLE"}
\* metadata: the title, "" when absent
Titles == {"", "Test Book"}

\* lines 35-41: the initial state, given what localStorage holds
initialState(ls) ==
    [theme |-> IF ls.theme # "null" THEN ls.theme ELSE "cyber",
     language |-> IF ls.language # "null" THEN ls.language ELSE "ar",
     currentStep |-> "LANGUAGE_SELECT",
     metadata |-> "",
     conversationHistory |-> <<>>,
     sidebarOpen |-> TRUE,
     isProcessing |-> FALSE]

\* faulty variant of goToStep: the new step is pushed, not the one left
goToStepPushingNew(st, step) ==
    [st EXCEPT !.currentStep = step,
               !.conversationHistory = Append(st.conversationHistory, step)]

\* lines 58-61
goToStep(st, step) ==
    [st EXCEPT !.currentStep = step,
               !.conversationHistory = Append(st.conversationHistory, st.currentStep)]

\* lines 67-76
goBack(st) ==
    IF Len(st.conversationHistory) > 0
    THEN [st EXCEPT !.currentStep = st.conversationHistory[Len(st.conversationHistory)],
                    !.conversationHistory =
                        SubSeq(st.conversationHistory, 1, Len(st.conversationHistory) - 1)]
    ELSE st

\* lines 78-82
resetConversation(st) ==
    [st EXCEPT !.currentStep = "LANGUAGE_SELECT",
               !.metadata = "",
               !.conversationHistory = <<>>]

\* lines 44-49
SetTheme ==
    /\ pc = "appStore"
    /\ \E t \in Themes :
          /\ appState' = [appState EXCEPT !.theme = t]
          /\ localStorage' = [localStorage EXCEPT !.theme = t]
    /\ UNCHANGED <<pc, chunkVars, mergeVars, validateVars, recoveryVars, engineVars>>

\* lines 51-56
SetLanguage ==
    /\ pc = "appStore"
    /\ \E l \in Languages :
          /\ appState' = [appState EXCEPT !.language = l]
          /\ localStorage' = [localStorage EXCEPT !.language = l]
    /\ UNCHANGED <<pc, chunkVars, mergeVars, validateVars, recoveryVars, engineVars>>

\* lines 58-61
GoToStep ==
    /\ pc = "appStore"
    /\ Len(appState.conversationHistory) < MaxHistory
    /\ \E step \in Steps : appState' = goToStep(appState, step)
    /\ UNCHANGED localStorage
    /\ UNCHANGED <<pc, chunkVars, mergeVars, validateVars, recoveryVars, engineVars>>

\* lines 63-65
UpdateMetadata ==
    /\ pc = "appStore"
    /\ \E title \in Titles \ {""} : appState' = [appState EXCEPT !.metadata = title]
    /\ UNCHANGED localStorage
    /\ UNCHANGED <<pc, chunkVars, mergeVars, validateVars, recoveryVars, engineVars>>

\* lines 67-76
GoBack ==
    /\ pc = "appStore"
    /\ appState' = goBack(appState)
    /\ UNCHANGED localStorage
    /\ UNCHANGED <<pc, chunkVars, mergeVars, validateVars, recoveryVars, engineVars>>

\* lines 78-82
ResetConversation ==
    /\ pc = "appStore"
    /\ appState' = resetConversation(appState)
    /\ UNCHANGED localStorage
    /\ UNCHANGED <<pc, chunkVars, mergeVars, validateVars, recoveryVars, engineVars>>

\* line 84
SetSidebarOpen ==
    /\ pc = "appStore"
    /\ \E open \in BOOLEAN : appState' = [appState EXCEPT !.sidebarOpen = open]
    /\ UNCHANGED localStorage
    /\ UNCHANGED <<pc, chunkVars, mergeVars, validateVars, recoveryVars, engineVars>>

\* line 85
SetProcessing ==
    /\ pc = "appStore"
    /\ \E processing \in BOOLEAN :
          appState' = [appState EXCEPT !.isProcessing = processing]
    /\ UNCHANGED localStorage
    /\ UNCHANGED <<pc, chunkVars, mergeVars, validateVars, recoveryVars, engineVars>>

\* the store as created with nothing in localStorage
NoStore ==
    /\ localStorage = [theme |-> "null", language |-> "null"]
    /\ appState = initialState(localStorage)

(***************************************************************************)
(* useProcessingEngine (src/v1_typescript/components/ProcessingEngine.tsx: *)
(* 11-90).  running[c] is where call c of startProcessing stands: "idle"   *)
(* before it is made, the stage whose helper it awaits, "resolved" or      *)
(* "rejected".  Each action is one synchronous stretch of the function.    *)
(* The four helpers have fallbacks (lines 93-163); the stretch throws when *)
(* the caller's onProgress throws.                                         *)
(***************************************************************************)
Callers == 1..MaxCalls
Stages == <<"analyzing", "editing", "creating_package", "generating_cover">>
stageProgress(k) == <<10, 40, 70, 90>>[k]
StageOf(p) == CHOOSE k \in 1..Len(Stages) : Stages[k] = p
Awaiting(c) == running[c] \in {Stages[k] : k \in 1..Len(Stages)}

\* lines 22-35: the call starts and awaits the analysis
StartProcessing(c) ==
    /\ pc = "useProcessingEngine"
    /\ running[c] = "idle"
    /\ isProcessing' = TRUE
    /\ processingError' = "null"
    /\ currentStage' = Stages[1]
    /\ progress' = stageProgress(1)
    /\ status' = [stage |-> Stages[1], progress |-> stageProgress(1)]
    /\ running' = [running EXCEPT ![c] = Stages[1]]
    /\ UNCHANGED <<pc, chunkVars, mergeVars, validateVars, recoveryVars, storeVars>>

\* lines 22-33 and 75-80: onProgress throws in the first stretch
StartFails(c) ==
    /\ pc = "useProcessingEngine"
    /\ running[c] = "idle"
    /\ currentStage' = Stages[1]
    /\ progress' = stageProgress(1)
    /\ processingError' = "onProgress"
    /\ isProcessing' = FALSE
    /\ running' = [running EXCEPT ![c] = "rejected"]
    /\ UNCHANGED status
    /\ UNCHANGED <<pc, chunkVars, mergeVars, validateVars, recoveryVars, storeVars>>

\* lines 35-68: a helper resolves and the next stage starts
NextStage(c) ==
    /\ pc = "useProcessingEngine"
    /\ Awaiting(c)
    /\ StageOf(running[c]) < Len(Stages)
    /\ LET k == StageOf(running[c]) + 1
       IN  /\ currentStage' = Stages[k]
           /\ progress' = stageProgress(k)
           /\ status' = [stage |-> Stages[k], progress |-> stageProgress(k)]
           /\ running' = [running EXCEPT ![c] = Stages[k]]
    /\ UNCHANGED <<isProcessing, processingError>>
    /\ UNCHANGED <<pc, chunkVars, mergeVars, validateVars, recoveryVars, storeVars>>

\* lines 37-66 and 75-80: onProgress throws when the next stage is reported
StageFails(c) ==
    /\ pc = "useProcessingEngine"
    /\ Awaiting(c)
    /\ StageOf(running[c]) < Len(Stages)
    /\ LET k == StageOf(running[c]) + 1
       IN  /\ currentStage' = Stages[k]
           /\ progress' = stageProgress(k)
    /\ processingError' = "onProgress"
    /\ isProcessing' = FALSE
    /\ running' = [running EXCEPT ![c] = "rejected"]
    /\ UNCHANGED status
    /\ UNCHANGED <<pc, chunkVars, mergeVars, validateVars, recoveryVars, storeVars>>

\* lines 68-73 and 78-80: the cover is there, the call returns
Complete(c) ==
    /\ pc = "useProcessingEngine"
    /\ Awaiting(c)
    /\ StageOf(running[c]) = Len(Stages)
    /\ progress' = 100
    /\ currentStage' = "complete"
    /\ isProcessing' = FALSE
    /\ running' = [running EXCEPT ![c] = "resolved"]
    /\ UNCHANGED <<processingError, status>>
    /\ UNCHANGED <<pc, chunkVars, mergeVars, validateVars, recoveryVars, storeVars>>

\* lines 12-15: the hook's initial state, no call made
NoEngine ==
    /\ isProcessing = FALSE
    /\ progress = 0
    /\ currentStage = ""
    /\ processingError = "null"
    /\ status = [stage |-> "", progress |-> 0]
    /\ running = [c \in Callers |-> "idle"]

(***************************************************************************)
(* Inputs.                                                                 *)
(***************************************************************************)
Alphabet == {"a", LF, SP, DOT}
RunLens == {1, 2, 2000}
Runs == [c : Alphabet, n : RunLens]
Texts == UNION {{s \in [1..k -> Runs] : IsStr(s)} : k \in 0..MaxRuns}

\* the text of the concrete boundary case of the specification
ConcreteText ==
    <<Run("A", 90000), Run(LF, 2), Run("B", 90000), Run(LF, 2), Run("C", 90000)>>

ChunkSizes == {1, 2, 2001}
OverlapSizes == {0, 1, 2500}

NoReport == [isValid |-> FALSE, ratio |-> Zero, message |-> "",
             originalLength |-> 0, editedLength |-> 0]

InitLocals ==
    /\ position = 0
    /\ previousOverlap = EmptyStr
    /\ chunks = <<>>
    /\ editedChunks = <<>>
    /\ merged = EmptyStr
    /\ i = 0
    /\ originalText = EmptyStr
    /\ editedText = EmptyStr
    /\ tolerancePercent = 10
    /\ report = NoReport
    /\ NoRecovery
    /\ NoStore
    /\ NoEngine

\* a call of editManuscriptSmart's pipeline with valid chunking arguments
Init ==
    /\ pc = "chunkTextSmart"
    /\ \/ /\ text \in Texts
          /\ maxChunkSize \in ChunkSizes
          /\ overlapSize \in OverlapSizes
       \/ /\ text = ConcreteText
          /\ maxChunkSize = 95000
          /\ overlapSize = 1000
    /\ InitLocals

Next ==
    \/ ChunkShortcut
    \/ ChunkEnter
    \/ ChunkIterate
    \/ ChunkReturn
    \/ KeepChunks
    \/ MergeShortcut
    \/ MergeEnter
    \/ MergeIterate
    \/ MergeReturn
    \/ FinalValidation
    \/ Validate

Spec == Init /\ [][Next]_vars

(***************************************************************************)
(* chunkTextSmart called with any maxChunkSize, the values <= 0 included.  *)
(***************************************************************************)
AnyChunkSizes == {-1, 0, 1, 2}

InitAnyArgs ==
    /\ pc = "chunkTextSmart"
    /\ text \in Texts
    /\ maxChunkSize \in AnyChunkSizes
    /\ overlapSize \in {0, 1}
    /\ InitLocals

SpecAnyArgs == InitAnyArgs /\ [][Next]_vars

(***************************************************************************)
(* mergeEditedChunks called on its own, with chunks an editing agent may   *)
(* have returned.                                                          *)
(***************************************************************************)
RECURSIVE Spell(_)
Spell(letters) ==
    IF letters = <<>> THEN EmptyStr
    ELSE Concat(Str(letters[1], 1), Spell(Tail(letters)))

\* "the quick brown fox", the overlap of the specification's example
Fox == Spell(<<"t", "h", "e", SP, "q", "u", "i", "c", "k", SP,
               "b", "r", "o", "w", "n", SP, "f", "o", "x">>)
FoxAccumulator == Concat(Str(DOT, 3), Fox)
FoxCurrent == Concat(Fox, Spell(<<SP, "j", "u", "m", "p", "s">>))

MergeTexts ==
    { EmptyStr,
      FoxAccumulator,
      FoxCurrent,
      Str("a", 1),
      Concat(Str("a", 1), Str(SP, 1)),
      Concat(Str(LF, 1), Str("a", 1)),
      Str("a", 50),
      Concat(Str("b", 1), Str("a", 51)),
      Concat(Str("a", 51), Str("b", 1)),
      Concat(Str("c", 1), Concat(Str("a", 30), Str("b", 30))),
      Concat(Concat(Str("a", 30), Str("b", 30)), Str("c", 1)),
      Concat(Str("b", 1), Str("a", 200)),
      Concat(Str("a", 200), Str("b", 300)),
      Concat(Str("b", 250), Str("a", 51)),
      Concat(Str("b", 460), Str("a", 51)) }

InitMerge ==
    /\ pc = "mergeEditedChunks"
    /\ editedChunks \in UNION {[1..k -> MergeTexts] : k \in 0..MaxEdited}
    /\ text = EmptyStr
    /\ maxChunkSize = 75000
    /\ overlapSize = 1000
    /\ position = 0
    /\ previousOverlap = EmptyStr
    /\ chunks = <<>>
    /\ merged = EmptyStr
    /\ i = 0
    /\ originalText = EmptyStr
    /\ editedText = EmptyStr
    /\ tolerancePercent = 10
    /\ report = NoReport
    /\ NoRecovery
    /\ NoStore
    /\ NoEngine

NextMerge ==
    \/ MergeShortcut
    \/ MergeEnter
    \/ MergeIterate
    \/ MergeReturn

SpecMerge == InitMerge /\ [][NextMerge]_vars

(***************************************************************************)
(* mergeEditedChunks on up to MaxMerged chunks, each of which shares its   *)
(* 60 characters a^30 b^30 with the others at a different offset.          *)
(***************************************************************************)
Shared60 == Concat(Str("a", 30), Str("b", 30))

SharingTexts ==
    { EmptyStr,
      Str("a", 1),
      Concat(Str("c", 1), Shared60),
      Concat(Shared60, Str("c", 1)),
      Concat(Str("b", 1), Shared60) }

InitMergeSharing ==
    /\ pc = "mergeEditedChunks"
    /\ editedChunks \in UNION {[1..k -> SharingTexts] : k \in 0..MaxMerged}
    /\ text = EmptyStr
    /\ maxChunkSize = 75000
    /\ overlapSize = 1000
    /\ position = 0
    /\ previousOverlap = EmptyStr
    /\ chunks = <<>>
    /\ merged = EmptyStr
    /\ i = 0
    /\ originalText = EmptyStr
    /\ editedText = EmptyStr
    /\ tolerancePercent = 10
    /\ report = NoReport
    /\ NoRecovery
    /\ NoStore
    /\ NoEngine

SpecMergeSharing == InitMergeSharing /\ [][NextMerge]_vars

(***************************************************************************)
(* validateEditedLength called on its own.                                 *)
(***************************************************************************)
\* n words "a" separated by single spaces
RECURSIVE Words(_)
Words(n) ==
    IF n <= 0 THEN EmptyStr
    ELSE IF n = 1 THEN Str("a", 1)
    ELSE Concat(Words(n - 1), Concat(Str(SP, 1), Str("a", 1)))

ValidatedTexts ==
    {Concat(lead, Concat(Words(n), trail)) :
        n \in 0..MaxWords, lead \in {EmptyStr, Str(SP, 1)},
        trail \in {EmptyStr, Str(LF, 2)}}

Tolerances == {0, 10, 50}

InitValidate ==
    /\ pc = "validateEditedLength"
    /\ originalText \in ValidatedTexts
    /\ editedText \in ValidatedTexts
    /\ tolerancePercent \in Tolerances
    /\ report = NoReport
    /\ NoRecovery
    /\ NoStore
    /\ NoEngine
    /\ text = EmptyStr
    /\ maxChunkSize = 75000
    /\ overlapSize = 1000
    /\ position = 0
    /\ previousOverlap = EmptyStr
    /\ chunks = <<>>
    /\ editedChunks = <<>>
    /\ merged = EmptyStr
    /\ i = 0

NextValidate == Validate

SpecValidate == InitValidate /\ [][NextValidate]_vars

(***************************************************************************)
(* withErrorRecovery called on its own; fn resolves or throws as it likes  *)
(* at every call.                                                          *)
(***************************************************************************)
RetryLimits == -1..MaxAttempts

InitRecovery ==
    /\ pc = "withErrorRecovery"
    /\ maxRetries \in RetryLimits
    /\ fallback \in {"none", "returns"}
    /\ onRetry \in BOOLEAN
    /\ attempt = 0
    /\ calls = <<>>
    /\ error = Nothing
    /\ retried = <<>>
    /\ delays = <<>>
    /\ outcome = Pending
    /\ text = EmptyStr
    /\ maxChunkSize = 75000
    /\ overlapSize = 1000
    /\ position = 0
    /\ previousOverlap = EmptyStr
    /\ chunks = <<>>
    /\ editedChunks = <<>>
    /\ merged = EmptyStr
    /\ i = 0
    /\ originalText = EmptyStr
    /\ editedText = EmptyStr
    /\ tolerancePercent = 10
    /\ report = NoReport
    /\ NoStore
    /\ NoEngine

NextRecovery ==
    \/ RecoveryEnter
    \/ AttemptBegin
    \/ LoopExhausted
    \/ FnResolves
    \/ FnRejects
    \/ CatchNotRetryable
    \/ CatchLastAttempt
    \/ CatchRetry
    \/ SleepDone

SpecRecovery == InitRecovery /\ [][NextRecovery]_vars

(***************************************************************************)
(* The app store used on its own, in any order of its operations.          *)
(***************************************************************************)
InitStore ==
    /\ pc = "appStore"
    /\ localStorage \in [theme : Themes \cup {"null"}, language : Languages \cup {"null"}]
    /\ appState = initialState(localStorage)
    /\ text = EmptyStr
    /\ maxChunkSize = 75000
    /\ overlapSize = 1000
    /\ position = 0
    /\ previousOverlap = EmptyStr
    /\ chunks = <<>>
    /\ editedChunks = <<>>
    /\ merged = EmptyStr
    /\ i = 0
    /\ originalText = EmptyStr
    /\ editedText = EmptyStr
    /\ tolerancePercent = 10
    /\ report = NoReport
    /\ NoRecovery
    /\ NoEngine

NextStore ==
    \/ SetTheme
    \/ SetLanguage
    \/ GoToStep
    \/ UpdateMetadata
    \/ GoBack
    \/ ResetConversation
    \/ SetSidebarOpen
    \/ SetProcessing

SpecStore == InitStore /\ [][NextStore]_vars

(***************************************************************************)
(* useProcessingEngine with up to MaxCalls calls of startProcessing, made  *)
(* at any time.                                                            *)
(***************************************************************************)
InitEngine ==
    /\ pc = "useProcessingEngine"
    /\ InitLocals
    /\ text = EmptyStr
    /\ maxChunkSize = 75000
    /\ overlapSize = 1000

NextEngine ==
    \/ \E c \in Callers : StartProcessing(c)
    \/ \E c \in Callers : StartFails(c)
    \/ \E c \in Callers : NextStage(c)
    \/ \E c \in Callers : StageFails(c)
    \/ \E c \in Callers : Complete(c)

SpecEngine == InitEngine /\ [][NextEngine]_vars

(***************************************************************************)
(* Properties of chunkTextSmart.                                           *)
(***************************************************************************)
Returned == pc \notin {"chunkTextSmart", "while"}
ValidArgs == maxChunkSize > 0 /\ overlapSize >= 0
LFLF == <<Run(LF, 2)>>

\* every index at which p occurs in s
Occurrences(s, p) ==
    UNION {FirstAt(s, p, r)..LastAt(s, p, r) :
              r \in {q \in 1..Len(s) : Aligned(s, p, q)}}

\* the chunks pushed by the loop when more than maxChunkSize + overlapSize
\* characters remained, i.e. whose end was searched for (lines 58-105)
Searched(k) ==
    /\ Length(text) > maxChunkSize
    /\ Length(text) - chunks[k].metadata.startPosition > maxChunkSize + overlapSize

\* C1: once chunkTextSmart has returned, the chunks' texts concatenated in
\* index order are exactly the input text.
C1_Partition == (ValidArgs /\ Returned) => JoinTexts(chunks) = text

C1_Witness ==
    /\ pc = "chunked"
    /\ Len(chunks) >= 3
    /\ overlapSize > 0
    /\ Len(text) >= 3

C4_ParagraphBreakPreferred ==
    \A k \in 1..Len(chunks) :
        LET pos == chunks[k].metadata.startPosition
            st == searchText(text, pos, maxChunkSize)
            breaks == UNION {Occurrences(st, p) : p \in ParagraphPatterns}
        IN  (ValidArgs /\ Searched(k) /\ Occurrences(st, LFLF) # {})
            => \E x \in breaks :
                  chunks[k].metadata.endPosition
                      = searchStart(pos, maxChunkSize) + x + 2

\* C5 as stated: in the concrete case the first chunk ends at the first
\* "\n\n" (offset 90000, or 90002 with the break included), not at 95000.
IsConcreteCase ==
    /\ text = ConcreteText
    /\ maxChunkSize = 95000
    /\ overlapSize = 1000
    /\ Len(chunks) >= 1

C5_FirstBreakAsStated ==
    IsConcreteCase =>
        /\ chunks[1].metadata.endPosition
               \in IndexOf(text, LFLF)..(IndexOf(text, LFLF) + 2)
        /\ chunks[1].metadata.endPosition # 95000

\* C5 amended: in the concrete case the first "\n\n" (offset 90000) lies
\* before the search window [93000, 97000], the window holds no break, and
\* the first chunk ends at the hard cutoff 95000.
C5_HardCutoff ==
    IsConcreteCase =>
        /\ IndexOf(text, LFLF) = 90000
        /\ IndexOf(text, LFLF) + 2 <= searchStart(0, maxChunkSize)
        /\ chunks[1].metadata.endPosition = 95000

C5_Witness == IsConcreteCase /\ pc = "chunked" /\ Len(chunks) = 3

\* C8: while the loop runs, position stays within the text, every pushed
\* chunk took at least one character, and the end the next iteration
\* chooses lies strictly after position and not after the end of the text;
\* so the loop ends after at most len(text) iterations.
C8_Progress ==
    (ValidArgs /\ pc = "while") =>
        /\ 0 <= position /\ position <= Length(text)
        /\ Len(chunks) <= position
        /\ \A k \in 1..Len(chunks) :
              chunks[k].metadata.startPosition < chunks[k].metadata.endPosition
        /\ position < Length(text) =>
              /\ position < chunkEnd(text, position, maxChunkSize, overlapSize)
              /\ chunkEnd(text, position, maxChunkSize, overlapSize) <= Length(text)

C8_Witness ==
    /\ pc = "while"
    /\ Len(chunks) >= 2
    /\ position < Length(text)
    /\ \E k \in 1..Len(chunks) :
          chunks[k].metadata.endPosition
              # chunks[k].metadata.startPosition + maxChunkSize

\* C10: in a returned result chunk 0 starts at 0, every chunk starts where
\* the one before it ends, the last chunk ends at len(text), and every
\* chunk's text is the slice [startPosition, endPosition) of the text.
C10_Contiguity ==
    (ValidArgs /\ Returned) =>
        /\ Len(chunks) >= 1
        /\ chunks[1].metadata.startPosition = 0
        /\ \A k \in 1..(Len(chunks) - 1) :
              chunks[k + 1].metadata.startPosition = chunks[k].metadata.endPosition
        /\ chunks[Len(chunks)].metadata.endPosition = Length(text)
        /\ \A k \in 1..Len(chunks) :
              /\ 0 <= chunks[k].metadata.startPosition
              /\ chunks[k].metadata.startPosition <= chunks[k].metadata.endPosition
              /\ chunks[k].metadata.endPosition <= Length(text)
              /\ chunks[k].text = Substring(text, chunks[k].metadata.startPosition,
                                            chunks[k].metadata.endPosition)

C10_Witness ==
    /\ pc = "chunked"
    /\ Len(chunks) >= 3
    /\ chunks[2].metadata.endPosition
           # chunks[2].metadata.startPosition + maxChunkSize

(***************************************************************************)
(* Properties of the round trip.                                           *)
(***************************************************************************)
MergeReturned == pc \in {"merged", "validateEditedLength", "validated"}

\* C2: merging the unmodified chunk texts of a split gives back the text.
C2_RoundTrip == (ValidArgs /\ MergeReturned) => merged = text

\* C9: called with maxChunkSize <= 0 on a non-empty text, chunkTextSmart
\* rejects the call at entry: the loop is never entered and no zero-length
\* chunk is pushed.
C9_InvalidSizeRejected ==
    (maxChunkSize <= 0 /\ Length(text) > 0) =>
        /\ pc # "while"
        /\ \A k \in 1..Len(chunks) : Length(chunks[k].text) > 0

(***************************************************************************)
(* Properties of mergeEditedChunks.                                        *)
(***************************************************************************)
\* the lengths of the strings that end acc and begin cur
SharedLengths(acc, cur) ==
    {n \in 1..Min(Length(acc), Length(cur)) :
        SubstringFrom(acc, Length(acc) - n) = Substring(cur, 0, n)}

\* acc and cur glued with their last n and first n characters emitted once
Collapsed(acc, cur, n) == Concat(Substring(acc, 0, Length(acc) - n), cur)

MergedTwo == pc = "merged" /\ Len(editedChunks) = 2

\* C6 as stated: when the accumulator ends with the string the next chunk
\* begins with, the merge emits that string once: the result is the two
\* glued with a shared string collapsed.
C6_CollapsedAsStated ==
    (MergedTwo /\ SharedLengths(editedChunks[1], editedChunks[2]) # {}) =>
        \E n \in SharedLengths(editedChunks[1], editedChunks[2]) :
            merged = Collapsed(editedChunks[1], editedChunks[2], n)

\* C6 amended: a shared string of 51 to 200 characters is emitted once: the
\* merge drops at least that many (and at most 200) trailing characters of
\* the accumulator and appends the next chunk in full.  When the accumulator
\* or the next chunk has at most 50 characters, as in the specification's
\* example with its overlap of 19 characters, nothing is collapsed: the
\* result is the accumulator, the separator of lines 167-174, and the next
\* chunk, with the shared string twice.
C6_CollapsedAbove50 ==
    MergedTwo =>
        LET acc == editedChunks[1]
            cur == editedChunks[2]
        IN  /\ \A n \in SharedLengths(acc, cur) :
                  (50 < n /\ n <= 200) =>
                      \E j \in n..200 : merged = Collapsed(acc, cur, j)
            /\ Min(Length(acc), Length(cur)) <= 50 =>
                  merged = Concat(Concat(acc, separator(acc, cur)), cur)

C6_Witness ==
    /\ MergedTwo
    /\ \E n \in SharedLengths(editedChunks[1], editedChunks[2]) :
          /\ n > 50
          /\ n < Length(editedChunks[1])
          /\ n < Length(editedChunks[2])
          /\ Len(Substring(editedChunks[2], 0, n)) > 1
          /\ merged = Collapsed(editedChunks[1], editedChunks[2], n)

(***************************************************************************)
(* Properties of validateEditedLength.                                     *)
(***************************************************************************)
\* C7: when the original has no word, isValid says that the edited text has
\* none either, and ratio is a finite number: 100 when both have no word,
\* 0 otherwise.
C7_EmptyOriginal ==
    (pc = "validated" /\ countWords(originalText) = 0) =>
        /\ report.isValid = (countWords(editedText) = 0)
        /\ report.ratio.kind = "finite"
        /\ Equals(report.ratio, IF countWords(editedText) = 0 THEN 100 ELSE 0)

(***************************************************************************)
(* Chunk metadata (C11-C14).                                               *)
(***************************************************************************)
IsPrefix(p, s) == Substring(s, 0, Length(p)) = p
IsSuffix(p, s) == SubstringFrom(s, Length(s) - Length(p)) = p

\* C11: whenever the text is not longer than maxChunkSize (the empty text
\* included), chunkTextSmart returns exactly one chunk: its text is the
\* input, index 0, totalChunks 1, startPosition 0, endPosition the length
\* of the text, overlapStart and overlapEnd empty, whatever overlapSize is.
C11_SingleChunk ==
    (ValidArgs /\ Returned /\ Length(text) <= maxChunkSize)
    => /\ Len(chunks) = 1
       /\ chunks[1].text = text
       /\ chunks[1].metadata.index = 0
       /\ chunks[1].metadata.totalChunks = 1
       /\ chunks[1].metadata.startPosition = 0
       /\ chunks[1].metadata.endPosition = Length(text)
       /\ chunks[1].metadata.overlapStart = EmptyStr
       /\ chunks[1].metadata.overlapEnd = EmptyStr

C11_Witness ==
    /\ pc = "chunked"
    /\ Len(text) >= 2
    /\ Length(text) = maxChunkSize
    /\ overlapSize > 0
    /\ Len(chunks) = 1

\* C12: in every returned list the chunk at list position k (counted from
\* 0) has index k, and every chunk's totalChunks is the length of the list.
C12_CountAndIndex ==
    (ValidArgs /\ Returned)
    => \A k \in 1..Len(chunks) :
          /\ chunks[k].metadata.index = k - 1
          /\ chunks[k].metadata.totalChunks = Len(chunks)

C12_Witness ==
    /\ pc = "chunked"
    /\ Len(chunks) >= 3
    /\ chunks[3].metadata.index = 2
    /\ chunks[1].metadata.totalChunks = Len(chunks)

\* C13: for overlapSize >= 0 the overlapStart and the overlapEnd of every
\* chunk are at most overlapSize characters long.
C13_OverlapBounds ==
    ValidArgs
    => \A k \in 1..Len(chunks) :
          /\ Length(chunks[k].metadata.overlapStart) <= overlapSize
          /\ Length(chunks[k].metadata.overlapEnd) <= overlapSize

C13_Witness ==
    /\ pc = "chunked"
    /\ overlapSize > 0
    /\ \E k \in 1..Len(chunks) :
          /\ Length(chunks[k].metadata.overlapEnd) = overlapSize
          /\ Length(text) - chunks[k].metadata.endPosition > overlapSize
    /\ \E k \in 1..Len(chunks) :
          /\ Length(chunks[k].metadata.overlapStart) = overlapSize
          /\ chunks[k].metadata.startPosition > overlapSize

\* C14: in every result of two or more chunks, overlapStart of the first
\* chunk and overlapEnd of the last chunk are empty, overlapStart of chunk
\* k+1 is the trailing min(overlapSize, length) characters of chunk k's
\* text, and overlapEnd of chunk k is a prefix of chunk k+1's text.
C14_OverlapContent ==
    (ValidArgs /\ Returned /\ Len(chunks) >= 2)
    => /\ chunks[1].metadata.overlapStart = EmptyStr
       /\ chunks[Len(chunks)].metadata.overlapEnd = EmptyStr
       /\ \A k \in 1..(Len(chunks) - 1) :
             /\ chunks[k + 1].metadata.overlapStart
                    = SubstringFrom(chunks[k].text,
                          Length(chunks[k].text)
                              - Min(overlapSize, Length(chunks[k].text)))
             /\ IsPrefix(chunks[k].metadata.overlapEnd, chunks[k + 1].text)

(***************************************************************************)
(* Merge of zero or one chunk (C15).                                       *)
(***************************************************************************)
\* C15: mergeEditedChunks of the empty list is the empty string, and
\* mergeEditedChunks of a one-element list is that element, unchanged.
C15_MergeIdentity ==
    pc = "merged"
    => /\ (Len(editedChunks) = 0 => merged = EmptyStr)
       /\ (Len(editedChunks) = 1 => merged = editedChunks[1])

C15_Witness ==
    /\ pc = "merged"
    /\ Len(editedChunks) = 1
    /\ Len(editedChunks[1]) >= 2
    /\ IsSpace(editedChunks[1][Len(editedChunks[1])].c)
    /\ merged = editedChunks[1]

(***************************************************************************)
(* The length check of validateEditedLength (C16, C17).                    *)
(***************************************************************************)
\* C16: with o > 0 words counted in the original and e in the edited text,
\* isValid is |100 - e/o*100| <= tolerancePercent, that is, in exact
\* arithmetic, 100 * |e - o| <= tolerancePercent * o, equality included.
\* o and e are the counts validateEditedLength itself takes (lines 191-192).
C16_ValidatorFormula ==
    (pc = "validated" /\ report.originalLength > 0)
    => LET o == report.originalLength
           e == report.editedLength
       IN  report.isValid
               = (100 * (IF e >= o THEN e - o ELSE o - e) <= tolerancePercent * o)

\* C17: validateEditedLength(t, t) has ratio 100 and isValid true for every
\* non-empty t and every tolerancePercent >= 0.
C17_SameText ==
    (/\ pc = "validated"
     /\ originalText = editedText
     /\ originalText # EmptyStr
     /\ tolerancePercent >= 0)
    => /\ Equals(report.ratio, 100)
       /\ report.isValid

C17_Witness ==
    /\ pc = "validated"
    /\ originalText = editedText
    /\ wordsOf(originalText) = 3
    /\ tolerancePercent = 0
    /\ report.isValid

(***************************************************************************)
(* Properties of withErrorRecovery (C18-C20).                              *)
(***************************************************************************)
Settled == pc = "settled"
AllCallsFailed == \A k \in 1..Len(calls) : IsError(calls[k])
AllCallsRetryable == \A k \in 1..Len(calls) : IsError(calls[k]) /\ ~notRetryable(calls[k])

\* C18: when every call of fn rejects with a retryable error and there is
\* no fallback, withErrorRecovery(fn, {maxRetries: n}) with n >= 1 never
\* calls fn more than n times, and it settles after exactly n calls, by
\* rejecting with the error of the last call.
C18_RetryExhaustion ==
    (maxRetries >= 1 /\ fallback = "none" /\ AllCallsRetryable)
    => /\ Len(calls) <= maxRetries
       /\ Settled => /\ Len(calls) = maxRetries
                     /\ outcome = Rejected(calls[maxRetries])

C18_Witness ==
    /\ Settled
    /\ maxRetries = MaxAttempts
    /\ fallback = "none"
    /\ AllCallsRetryable
    /\ outcome = Rejected(calls[MaxAttempts])

\* C19: the call that resolves first ends the retries: when the k-th call
\* of fn is the first to resolve, withErrorRecovery resolves with its value
\* after exactly k calls, and onRetry has been called exactly k - 1 times,
\* the j-th time with (j, the error of attempt j); while attempt j + 1 is
\* under way, onRetry has been told of the attempts 1..j and of no other.
C19_FirstSuccess ==
    /\ (onRetry /\ pc = "fn")
       => /\ Len(calls) = attempt - 1
          /\ retried = [j \in 1..(attempt - 1) |-> <<j, calls[j]>>]
    /\ (Settled /\ Len(calls) >= 1 /\ calls[Len(calls)].class = "value")
       => /\ Len(calls) <= maxRetries
          /\ \A j \in 1..(Len(calls) - 1) : IsError(calls[j])
          /\ outcome = Resolved(calls[Len(calls)])
          /\ onRetry => retried = [j \in 1..(Len(calls) - 1) |-> <<j, calls[j]>>]

C19_Witness ==
    /\ Settled
    /\ onRetry
    /\ Len(calls) = 3
    /\ calls[3].class = "value"
    /\ Len(retried) = 2
    /\ retried[2] = <<2, calls[2]>>

\* C20: when fn fails on all maxRetries >= 1 attempts and a fallback is
\* given, withErrorRecovery resolves with the fallback's result, and
\* onRetry is not called for the last failed attempt.
C20_FallbackOnExhaustion ==
    (/\ Settled
     /\ maxRetries >= 1
     /\ fallback = "returns"
     /\ Len(calls) = maxRetries
     /\ AllCallsFailed)
    => /\ outcome = Resolved(Thing("fallback", TRUE, 0))
       /\ \A j \in 1..Len(retried) : retried[j][1] # maxRetries
       /\ onRetry => Len(retried) = maxRetries - 1

C20_Witness ==
    /\ Settled
    /\ maxRetries >= 2
    /\ fallback = "returns"
    /\ onRetry
    /\ Len(calls) = maxRetries
    /\ AllCallsRetryable
    /\ outcome.with.class = "fallback"

\* C21: when a call of fn rejects with a RecoverableError whose retryable
\* flag is false, fn is not called again whatever the budget left, onRetry
\* is not called for that failure, and the call settles at once: with the
\* fallback's result if a fallback is given, by rejecting with that error
\* otherwise.
C21_NonRetryableStops ==
    \A k \in 1..Len(calls) :
        (calls[k].class = "RecoverableError" /\ ~calls[k].retryable)
        => /\ k = Len(calls)
           /\ pc \in {"catch", "settled"}
           /\ \A j \in 1..Len(retried) : retried[j][1] # k
           /\ Settled => outcome = IF fallback = "returns"
                                   THEN Resolved(Thing("fallback", TRUE, 0))
                                   ELSE Rejected(calls[k])

C21_Witness ==
    /\ Settled
    /\ maxRetries = MaxAttempts
    /\ onRetry
    /\ fallback = "none"
    /\ Len(calls) = 2
    /\ calls[2] = Thing("RecoverableError", FALSE, 2)
    /\ Len(retried) = 1
    /\ outcome = Rejected(calls[2])

(***************************************************************************)
(* Properties of the app store (C22).                                      *)
(***************************************************************************)
\* the fields goToStep and goBack must leave alone
OtherFields(st) ==
    <<st.metadata, st.theme, st.language, st.sidebarOpen, st.isProcessing>>

\* C22: conversationHistory is a stack.  In every state the store can be
\* in, goToStep(s) sets currentStep to s and pushes the step it leaves;
\* goBack pops the last entry into currentStep and does nothing on an empty
\* history; goToStep(s) followed by goBack gives back currentStep and
\* conversationHistory; and neither changes metadata, theme, language,
\* sidebarOpen or isProcessing.
C22_HistoryIsStack ==
    pc = "appStore"
    => /\ \A s \in Steps :
             /\ goToStep(appState, s).currentStep = s
             /\ goToStep(appState, s).conversationHistory
                    = appState.conversationHistory \o <<appState.currentStep>>
             /\ goBack(goToStep(appState, s)).currentStep = appState.currentStep
             /\ goBack(goToStep(appState, s)).conversationHistory
                    = appState.conversationHistory
             /\ OtherFields(goToStep(appState, s)) = OtherFields(appState)
       /\ appState.conversationHistory = <<>> => goBack(appState) = appState
       /\ appState.conversationHistory # <<>> =>
             /\ goBack(appState).conversationHistory \o <<goBack(appState).currentStep>>
                    = appState.conversationHistory
       /\ OtherFields(goBack(appState)) = OtherFields(appState)

C22_Witness ==
    /\ pc = "appStore"
    /\ appState.conversationHistory = <<"LANGUAGE_SELECT", "INTRO">>
    /\ appState.currentStep = "BOOK_TITLE"
    /\ appState.metadata = "Test Book"
    /\ appState.isProcessing
    /\ goBack(appState).currentStep = "INTRO"

(***************************************************************************)
(* More properties of chunkTextSmart (C23, C24).                           *)
(***************************************************************************)
\* C23: for a text longer than maxChunkSize (maxChunkSize > 0, overlapSize
\* >= 0) every chunk of the list, the last one included, has a non-empty
\* text; this holds of the list while it is built as well as when returned.
C23_NoEmptyChunk ==
    (ValidArgs /\ Length(text) > maxChunkSize)
    => /\ \A k \in 1..Len(chunks) : Length(chunks[k].text) > 0
       /\ Returned => Len(chunks) >= 1

C23_Witness ==
    /\ pc = "chunked"
    /\ Length(text) > maxChunkSize
    /\ Len(chunks) >= 3
    /\ Length(chunks[Len(chunks)].text) = 1

MaxOf(S) == CHOOSE x \in S : \A y \in S : y <= x
\* the runs of s at which pattern p occurs, and the rightmost index at which
\* one of the patterns occurs in s (-1 if none does)
AlignedRuns(s, p) == {q \in 1..Len(s) : Aligned(s, p, q)}
Rightmost(s, patterns) ==
    LET last == UNION {{LastAt(s, p, r) : r \in AlignedRuns(s, p)} : p \in patterns}
    IN  IF last = {} THEN -1 ELSE MaxOf(last)
NLSPNL == <<Run(LF, 1), Run(SP, 1), Run(LF, 1)>>

\* C24: for a chunk cut while more than maxChunkSize + overlapSize
\* characters remained: if the search window holds a paragraph break
\* ("\n\n" or "\n \n") the chunk ends right after the rightmost of the
\* breaks lines 77-84 look for, even when a sentence break lies later; if it
\* holds none of those but a sentence break (". " and its kin), right after
\* the rightmost sentence break; and if it holds neither, at exactly
\* position + maxChunkSize, the chunk having maxChunkSize characters.
C24_SplitPriority ==
    \A k \in 1..Len(chunks) :
        LET pos == chunks[k].metadata.startPosition
            end == chunks[k].metadata.endPosition
            st == searchText(text, pos, maxChunkSize)
            paragraph == Rightmost(st, ParagraphPatterns)
            sentence == Rightmost(st, SentencePatterns)
        IN  (ValidArgs /\ Searched(k))
            => /\ Rightmost(st, {LFLF, NLSPNL}) >= 0
                  => end = searchStart(pos, maxChunkSize) + paragraph + 2
               /\ (paragraph < 0 /\ sentence >= 0)
                  => end = searchStart(pos, maxChunkSize) + sentence + 2
               /\ (paragraph < 0 /\ sentence < 0)
                  => /\ end = pos + maxChunkSize
                     /\ Length(chunks[k].text) = maxChunkSize

(***************************************************************************)
(* More properties of mergeEditedChunks (C25, C26, C28).                   *)
(***************************************************************************)
\* the merge step of a two-chunk merge cut characters off the accumulator
Truncated ==
    /\ MergedTwo
    /\ Length(merged) < Length(editedChunks[1]) + Length(editedChunks[2])

\* the lengths j, 50 < j <= min(200, len(acc)), of the suffixes of acc that
\* occur within the first `window` characters of cur
SuffixesWithin(acc, cur, window) ==
    {j \in 51..Min(200, Length(acc)) :
        IndexOf(Substring(cur, 0, Min(window, Length(cur))),
                SubstringFrom(acc, Length(acc) - j)) >= 0}

\* C25 as stated: an overlap is accepted only if a suffix of the accumulator
\* of length j, 50 < j <= min(200, len(accumulator)), occurs inside the
\* first min(200, len(current)) characters of current.
C25_WindowAsStated ==
    Truncated => SuffixesWithin(editedChunks[1], editedChunks[2], 200) # {}

\* C25 amended: the window of current that is searched is its first
\* min(500, len(current)) characters: the accumulator is truncated exactly
\* when a suffix of length j, 50 < j <= min(200, len(accumulator)), occurs
\* inside that window, and then by the longest such j; an occurrence that
\* ends beyond the first 500 characters of current is not a match.
C25_WindowOf500 ==
    MergedTwo =>
        LET acc == editedChunks[1]
            cur == editedChunks[2]
            found == SuffixesWithin(acc, cur, 500)
        IN  /\ Truncated <=> found # {}
            /\ found # {} => merged = Collapsed(acc, cur, MaxOf(found))

C25_Witness ==
    /\ Truncated
    /\ SuffixesWithin(editedChunks[1], editedChunks[2], 200) = {}
    /\ SuffixesWithin(editedChunks[1], editedChunks[2], 500) # {}

EndsInWhite(s) == s # <<>> /\ s[Len(s)].c \in {SP, LF}
StartsInWhite(s) == s # <<>> /\ s[1].c \in {SP, LF}
SpaceIfNeeded(acc, cur) ==
    IF ~EndsInWhite(acc) /\ ~StartsInWhite(cur) THEN Str(SP, 1) ELSE EmptyStr

C27_CountsDropEmptyTokens ==
    pc = "validated"
    => /\ report.originalLength = countWords(originalText)
       /\ report.editedLength = countWords(editedText)
       /\ (countWords(originalText) > 0 /\ editedText = EmptyStr
               /\ tolerancePercent < 100)
          => (Equals(report.ratio, 0) /\ ~report.isValid)

(***************************************************************************)
(* What a merge keeps (C28).                                               *)
(***************************************************************************)
RECURSIVE SumLengths(_, _)
SumLengths(ec, n) == IF n = 0 THEN 0 ELSE SumLengths(ec, n - 1) + Length(ec[n])

\* s.includes(p): the empty string occurs in every string
Contains(s, p) == p = EmptyStr \/ IndexOf(s, p) >= 0

\* C28 as stated: the output of a merge of one or more chunks ends with the
\* last chunk, contains every chunk after the first in full, and is not
\* longer than the sum of the chunks' lengths plus the number of chunks - 1.
C28_KeepsChunksAsStated ==
    (pc = "merged" /\ Len(editedChunks) >= 1)
    => /\ IsSuffix(editedChunks[Len(editedChunks)], merged)
       /\ \A k \in 2..Len(editedChunks) : Contains(merged, editedChunks[k])
       /\ Length(merged)
              <= SumLengths(editedChunks, Len(editedChunks)) + Len(editedChunks) - 1

\* C28 amended: every merge step appends current in full and removes from
\* the accumulator at most 200 trailing characters, and only a suffix that
\* re-occurs in the first 500 characters of current; so after every step
\* the accumulator ends with the chunk just merged and is not longer than
\* the sum of the lengths of the chunks merged so far plus their number - 1.
\* A chunk before the last may lose its trailing characters to a later step.
C28_StepKeepsCurrent ==
    [][(pc = "for" /\ i' = i + 1)
       => LET cur == editedChunks[i + 1]
          IN  /\ \E j \in 0..Min(200, Length(merged)) :
                    \E sep \in {EmptyStr, Str(SP, 1)} :
                       /\ merged' = Concat(Concat(Substring(merged, 0, Length(merged) - j),
                                                  sep), cur)
                       /\ j > 0 => /\ sep = EmptyStr
                                   /\ j \in SuffixesWithin(merged, cur, 500)
              /\ IsSuffix(cur, merged')
              /\ Length(merged') <= SumLengths(editedChunks, i + 1) + i]_vars

C28_Witness ==
    /\ pc = "merged"
    /\ Len(editedChunks) = 3
    /\ ~Contains(merged, editedChunks[2])
    /\ IsSuffix(editedChunks[3], merged)

(***************************************************************************)
(* withErrorRecovery with a fallback (C29).                                *)
(***************************************************************************)
\* C29: for every maxRetries, zero and negative values included, a call of
\* withErrorRecovery that is given a fallback calls fn at least once and
\* never rejects: it resolves with a value of fn or with fallback().
C29_FallbackMakesTotal ==
    (Settled /\ fallback = "returns")
    => /\ Len(calls) >= 1
       /\ outcome.state = "resolved"
       /\ outcome.with.class \in {"value", "fallback"}

(***************************************************************************)
(* The processing flag of useProcessingEngine (C30).                       *)
(***************************************************************************)
\* C30: isProcessing is true whenever at least one startProcessing call has
\* started and has not yet settled, overlapping calls included, and it is
\* false once every started call has resolved or rejected.
C30_FlagTracksInFlight ==
    pc = "useProcessingEngine"
    => /\ (\E c \in Callers : Awaiting(c)) => isProcessing
       /\ (\A c \in Callers : ~Awaiting(c)) => ~isProcessing
====
